---- MODULE Spec2Model ----
\* A model of the two notebooks of the repository:
\*   - the Google Books word-count notebook (src/unnamed/part_000): loading
\*     isbn.txt, get_desc_wc (serial, one list) and get_desc_wc_parallel
\*     (one identifier);
\*   - the Boto3 notebook (boto3_serverless_intro.ipynb): invoke_function run
\*     on a ThreadPoolExecutor(max_workers=4).
\* Strings are sequences of characters (the URL prefix is one piece), so that
\* concatenation, strip(), split() and the JSON texts are computed and not
\* assumed.
EXTENDS Integers, Sequences, FiniteSets, TLC

\* ------------------------------------------------------------------ bounds

\* Longest description string the server sends.
MaxDescLen == 3
\* Longest identifier list handed to get_desc_wc.
MaxList == 3

\* ----------------------------------------------------------------- strings

\* Characters str.split() and str.strip() treat as whitespace (the ones the
\* model's strings use).
Whitespace == {" ", "\n"}

\* The characters of a description: a letter and the space.
DescChars == {"a", " "}

\* All strings over cs of length at most n.
StringsUpTo(cs, n) == UNION {[1..k -> cs] : k \in 0..n}

\* s[i..j] as Python's s[i-1:j].
Slice(s, i, j) == SubSeq(s, i, j)

\* Index of the first character at or after i that is (want = TRUE) or is not
\* (want = FALSE) whitespace; Len(s) + 1 when there is none.
RECURSIVE Scan(_, _, _)
Scan(s, i, want) ==
    IF i > Len(s) THEN Len(s) + 1
    ELSE IF (s[i] \in Whitespace) = want THEN i
    ELSE Scan(s, i + 1, want)

\* description.split(): with no separator, runs of whitespace separate the
\* tokens and leading and trailing whitespace yields no empty token.
RECURSIVE SplitFrom(_, _)
SplitFrom(s, i) ==
    LET b == Scan(s, i, FALSE)
        e == Scan(s, b, TRUE)
    IN  IF b > Len(s) THEN << >>
        ELSE <<Slice(s, b, e - 1)>> \o SplitFrom(s, e)

\* A plausible slip: description.split(' '), where every single space
\* separates and empty tokens are kept.
RECURSIVE SplitOnSpaceFrom(_, _)
SplitOnSpaceFrom(s, i) ==
    LET e == CHOOSE j \in i..(Len(s) + 1) :
                 /\ (j = Len(s) + 1 \/ s[j] = " ")
                 /\ \A k \in i..(j - 1) : s[k] # " "
    IN  IF e > Len(s) THEN <<Slice(s, i, Len(s))>>
        ELSE <<Slice(s, i, e - 1)>> \o SplitOnSpaceFrom(s, e + 1)

SplitOnSpace(s) == SplitOnSpaceFrom(s, 1)

Split(s) == SplitFrom(s, 1)

\* -------------------------------------------------------------- JSON values

\* A parsed JSON value, as r.json() returns it: a dict, a list, a str or None.
JObj(m) == [t |-> "obj", v |-> m]
JArr(a) == [t |-> "arr", v |-> a]
JStr(s) == [t |-> "str", v |-> s]
JNull == [t |-> "null", v |-> << >>]

\* The outcome of evaluating a Python expression: a value, or a raised
\* exception.
Ok(x) == [exc |-> "none", val |-> x]
Raise(e) == [exc |-> e, val |-> JNull]

\* v[key] for a string key.
GetKey(v, key) ==
    IF v.t = "obj"
    THEN IF key \in DOMAIN v.v THEN Ok(v.v[key]) ELSE Raise("KeyError")
    ELSE Raise("TypeError")

\* v[0].
GetFirst(v) ==
    CASE v.t = "obj" -> Raise("KeyError")
      [] v.t = "arr" -> IF Len(v.v) > 0 THEN Ok(v.v[1]) ELSE Raise("IndexError")
      [] v.t = "str" -> IF Len(v.v) > 0 THEN Ok(JStr(<<v.v[1]>>))
                        ELSE Raise("IndexError")
      [] OTHER -> Raise("TypeError")

\* o[key] and o[0] for the outcome o of a subexpression: an exception it
\* raised propagates.
ThenKey(o, key) == IF o.exc = "none" THEN GetKey(o.val, key) ELSE o
ThenFirst(o) == IF o.exc = "none" THEN GetFirst(o.val) ELSE o

\* data['items'][0]['volumeInfo']['description']
DescriptionOf(data) ==
    ThenKey(ThenKey(ThenFirst(GetKey(data, "items")), "volumeInfo"), "description")

\* len(description.split()): str has split, any other value raises
\* AttributeError.
WordCountSlip(d) ==
    IF d.t = "str" THEN Ok(Len(SplitOnSpace(d.v))) ELSE Raise("AttributeError")

WordCount(d) ==
    IF d.t = "str" THEN Ok(Len(Split(d.v))) ELSE Raise("AttributeError")

\* len(o.split()) for the outcome o of the subscript expression.
ThenWordCount(o) == IF o.exc = "none" THEN WordCount(o.val) ELSE o

\* ------------------------------------------------------ the Books API

\* url = "https://www.googleapis.com/books/v1/volumes?q=isbn:"
\* The prefix is one piece of the string: nothing looks inside it.
url == <<"https://www.googleapis.com/books/v1/volumes?q=isbn:">>

\* Two identifiers that the notebook's outputs show.
Isbns ==
    { <<"0", "4", "3", "5", "9", "1", "0", "1", "0", "8">>,
      <<"0", "6", "1", "8", "1", "5", "5", "8", "7", "2">> }

\* The description strings the server may send.
Descriptions == StringsUpTo(DescChars, MaxDescLen)

Title == JStr(<<"t">>)

\* A response with one volume that has a description: the shape the notebook
\* prints for isbn_list[50].
Found(desc) ==
    JObj([kind |-> JStr(<<"v">>),
          items |-> JArr(<<JObj([id |-> JStr(<<"i">>),
                                 volumeInfo |-> JObj([title |-> Title,
                                                      description |-> desc])])>>)])

\* Responses without a usable description.
NoItems == JObj([kind |-> JStr(<<"v">>)])
ApiError == JObj([error |-> JObj([code |-> JStr(<<"4">>)])])
EmptyItems == JObj([kind |-> JStr(<<"v">>), items |-> JArr(<< >>)])
NoVolumeInfo ==
    JObj([kind |-> JStr(<<"v">>), items |-> JArr(<<JObj([id |-> JStr(<<"i">>)])>>)])
NoDescription ==
    JObj([kind |-> JStr(<<"v">>),
          items |-> JArr(<<JObj([id |-> JStr(<<"i">>),
                                 volumeInfo |-> JObj([title |-> Title])])>>)])
ItemsIsObject == JObj([kind |-> JStr(<<"v">>), items |-> JObj([id |-> JStr(<<"i">>)])])
ItemIsString == JObj([kind |-> JStr(<<"v">>), items |-> JArr(<<JStr(<<"i">>)>>)])
TopLevelList == JArr(<< >>)

\* Every body the server may answer a GET with.
Responses ==
    {Found(JStr(d)) : d \in Descriptions}
    \cup {Found(JNull), NoItems, ApiError, EmptyItems, NoVolumeInfo,
          NoDescription, ItemsIsObject, ItemIsString, TopLevelList}

Range(f) == {f[k] : k \in DOMAIN f}

\* The URLs of the identifiers of a list.
UrlsOf(L) == {url \o x : x \in Range(L)}

\* ------------------------------------------------------------------ state

VARIABLES
    isbn_list,   \* the argument of get_desc_wc, the list the item calls walk
    server,      \* the body the API answers each URL with
    pc,          \* get_desc_wc: "loop", "await", "body", "done", "raised"
    idx,         \* get_desc_wc: position of the loop, 1-based
    wc_list,     \* get_desc_wc: the local wc_list
    requests,    \* get_desc_wc: URLs of the GETs issued so far, in order
    inflight,    \* get_desc_wc: positions whose GET has no response yet
    r,           \* get_desc_wc: the body of the last response
    ret,         \* get_desc_wc: what the call ended with
    ppc,         \* item calls: "idle", "call", "await", "body", "done", "raised"
    pidx,        \* item calls: position of the identifier of the current call
    prequests,   \* item calls: for each call started, the URLs it requested
    pr,          \* item calls: the body of the last response
    pret,        \* item calls: what each finished call ended with, in order
    file_text,   \* isbn.txt: the characters of the file
    file_pos,    \* isbn.txt: position of the next character to read, 1-based
    loaded,      \* isbn.txt: the entries the list comprehension has built
    lpc,         \* isbn.txt: "closed" before and after, "reading" in the with
    payloads,    \* pool: the iterable handed to executor.map
    futures,     \* pool: one future per submitted payload, in submission order
    work_queue,  \* pool: submitted work items no worker has taken yet
    nthreads,    \* pool: worker threads started
    running,     \* pool: work items a worker is running invoke_function for
    mpc,         \* pool: the main thread: "map", "shutdown", "collect", "done"
    results,     \* pool: the list the final comprehension builds
    overtaken,   \* pool: history: an invocation finished before an earlier one
    serial_r,    \* Lambda: the values of the synchronous invoke cell, as run
    batch_n,     \* batches: the batch size n
    bi,          \* batches: the loop variable i of range(0, len(isbn_list), n)
    isbn_batches,\* batches: the list the comprehension has built
    bpc,         \* batches: "idle", "batching", "done"
    mode,        \* PyWren: "items" maps get_desc_wc_parallel, "batches" get_desc_wc
    pw_futures,  \* PyWren: the futures pwex.map returned, one per element
    gpc,         \* PyWren: the notebook cell: "map", "wait", "done", "raised"
    pw_ret       \* PyWren: what get_all_results ended with

wcVars == <<isbn_list, server, pc, idx, wc_list, requests, inflight, r, ret,
            ppc, pidx, prequests, pr, pret>>

loadVars == <<file_text, file_pos, loaded, lpc>>

poolVars ==
    <<payloads, futures, work_queue, nthreads, running, mpc, results, overtaken>>

lambdaVars == <<serial_r>>

batchVars == <<batch_n, bi, isbn_batches, bpc>>

pwVars == <<mode, pw_futures, gpc, pw_ret>>

vars == <<wcVars, loadVars, poolVars, lambdaVars, batchVars, pwVars>>

\* The body the server answers a GET of u with.
ServerResponse(u) == IF u \in DOMAIN server THEN server[u] ELSE NoItems

\* A call that has not ended.
Pending == [exc |-> "pending", val |-> << >>]

\* --------------------------------------------------------- get_desc_wc

\* A plausible slip: the identifier alone, without the URL prefix.
RequestUrlBare(isbn) == isbn

\* url + isbn
RequestUrl(isbn) == url \o isbn

\* A plausible slip: a GET that returns before its response has arrived
\* leaves the request outstanding.
ReceivedLate(outstanding, k) == outstanding

\* requests.get blocks until the response of request k is there: k is no
\* longer outstanding.
Received(outstanding, k) == outstanding \ {k}

\* A plausible slip: an except branch that only passes, appending nothing.
SerialTryNoAppend(data, wcl) ==
    LET o == ThenWordCount(DescriptionOf(data))
    IN  CASE o.exc = "none" -> Ok(Append(wcl, o.val))
          [] o.exc = "KeyError" -> Ok(wcl)
          [] OTHER -> [exc |-> o.exc, val |-> wcl]

\* The try statement of get_desc_wc on the parsed body data, with wc_list
\* being wcl: the new wc_list, or the exception that leaves the function.
\* A plausible slip: a bare except, which absorbs every exception.
SerialTryCatchAll(data, wcl) ==
    LET o == ThenWordCount(DescriptionOf(data))
    IN  IF o.exc = "none" THEN Ok(Append(wcl, o.val)) ELSE Ok(Append(wcl, 0))

SerialTry(data, wcl) ==
    LET o == ThenWordCount(DescriptionOf(data))
    IN  CASE o.exc = "none" -> Ok(Append(wcl, o.val))
          [] o.exc = "KeyError" -> Ok(Append(wcl, 0))
          [] OTHER -> [exc |-> o.exc, val |-> wcl]

\* for isbn in isbn_list: r = requests.get(url + isbn), the request going out.
SerialRequest ==
    /\ pc = "loop"
    /\ idx <= Len(isbn_list)
    /\ requests' = Append(requests, RequestUrl(isbn_list[idx]))
    /\ inflight' = inflight \cup {idx}
    /\ pc' = "await"
    /\ UNCHANGED <<isbn_list, server, idx, wc_list, r, ret, ppc, pidx,
                   prequests, pr, pret>>
    /\ UNCHANGED <<loadVars, poolVars, lambdaVars, batchVars, pwVars>>

\* requests.get returns; data = r.json()
SerialResponse ==
    /\ pc = "await"
    /\ r' = ServerResponse(requests[Len(requests)])
    /\ inflight' = Received(inflight, idx)
    /\ pc' = "body"
    /\ UNCHANGED <<isbn_list, server, idx, wc_list, requests, ret, ppc, pidx,
                   prequests, pr, pret>>
    /\ UNCHANGED <<loadVars, poolVars, lambdaVars, batchVars, pwVars>>

\* The try statement; an exception other than KeyError leaves the function.
SerialBody ==
    /\ pc = "body"
    /\ LET o == SerialTry(r, wc_list)
       IN  \/ /\ o.exc = "none"
              /\ wc_list' = o.val
              /\ idx' = idx + 1
              /\ pc' = "loop"
              /\ ret' = ret
           \/ /\ o.exc # "none"
              /\ ret' = [exc |-> o.exc, val |-> << >>]
              /\ pc' = "raised"
              /\ UNCHANGED <<wc_list, idx>>
    /\ UNCHANGED <<isbn_list, server, requests, inflight, r, ppc, pidx,
                   prequests, pr, pret>>
    /\ UNCHANGED <<loadVars, poolVars, lambdaVars, batchVars, pwVars>>

\* return wc_list
SerialReturn ==
    /\ pc = "loop"
    /\ idx > Len(isbn_list)
    /\ ret' = Ok(wc_list)
    /\ pc' = "done"
    /\ UNCHANGED <<isbn_list, server, idx, wc_list, requests, inflight, r,
                   ppc, pidx, prequests, pr, pret>>
    /\ UNCHANGED <<loadVars, poolVars, lambdaVars, batchVars, pwVars>>

\* ------------------------------------------------ get_desc_wc_parallel

\* A plausible slip: without wc = 0, a KeyError leaves wc unbound at the
\* return statement.
ParallelTryUnbound(data) ==
    LET o == ThenWordCount(DescriptionOf(data))
    IN  CASE o.exc = "none" -> Ok(o.val)
          [] o.exc = "KeyError" -> [exc |-> "UnboundLocalError", val |-> 0]
          [] OTHER -> [exc |-> o.exc, val |-> 0]

\* The body of get_desc_wc_parallel after data = r.json(): wc starts at 0,
\* the try statement sets it, KeyError leaves it; the returned wc, or the
\* exception that leaves the function.
ParallelTry(data) ==
    LET wc == 0
        o == ThenWordCount(DescriptionOf(data))
    IN  CASE o.exc = "none" -> Ok(o.val)
          [] o.exc = "KeyError" -> Ok(wc)
          [] OTHER -> [exc |-> o.exc, val |-> wc]

\* The item calls start once get_desc_wc has ended: get_desc_wc_parallel is
\* called on each identifier of the list in turn.
ItemStart ==
    /\ pc \in {"done", "raised"}
    /\ ppc = "idle"
    /\ ppc' = "call"
    /\ UNCHANGED <<isbn_list, server, pc, idx, wc_list, requests, inflight, r,
                   ret, pidx, prequests, pr, pret>>
    /\ UNCHANGED <<loadVars, poolVars, lambdaVars, batchVars, pwVars>>

\* wc = 0; r = requests.get(url + isbn), the request going out.
ItemRequest ==
    /\ ppc = "call"
    /\ pidx <= Len(isbn_list)
    /\ prequests' = Append(prequests, <<RequestUrl(isbn_list[pidx])>>)
    /\ ppc' = "await"
    /\ UNCHANGED <<isbn_list, server, pc, idx, wc_list, requests, inflight, r,
                   ret, pidx, pr, pret>>
    /\ UNCHANGED <<loadVars, poolVars, lambdaVars, batchVars, pwVars>>

\* requests.get returns; data = r.json()
ItemResponse ==
    /\ ppc = "await"
    /\ pr' = ServerResponse(prequests[Len(prequests)][1])
    /\ ppc' = "body"
    /\ UNCHANGED <<isbn_list, server, pc, idx, wc_list, requests, inflight, r,
                   ret, pidx, prequests, pret>>
    /\ UNCHANGED <<loadVars, poolVars, lambdaVars, batchVars, pwVars>>

\* The try statement and return wc; an exception ends the walk.
ItemBody ==
    /\ ppc = "body"
    /\ LET o == ParallelTry(pr)
       IN  /\ pret' = Append(pret, o)
           /\ IF o.exc = "none"
              THEN ppc' = "call" /\ pidx' = pidx + 1
              ELSE ppc' = "raised" /\ pidx' = pidx
    /\ UNCHANGED <<isbn_list, server, pc, idx, wc_list, requests, inflight, r,
                   ret, prequests, pr>>
    /\ UNCHANGED <<loadVars, poolVars, lambdaVars, batchVars, pwVars>>

\* Every identifier has had its call.
ItemsDone ==
    /\ ppc = "call"
    /\ pidx > Len(isbn_list)
    /\ ppc' = "done"
    /\ UNCHANGED <<isbn_list, server, pc, idx, wc_list, requests, inflight, r,
                   ret, pidx, prequests, pr, pret>>
    /\ UNCHANGED <<loadVars, poolVars, lambdaVars, batchVars, pwVars>>

\* ------------------------------------------------------- specification

\* The notebook parts a specification leaves out stay as they are before
\* their cells run.
WcIdle ==
    /\ isbn_list = << >>
    /\ server = << >>
    /\ pc = "done"
    /\ idx = 1
    /\ wc_list = << >>
    /\ requests = << >>
    /\ inflight = {}
    /\ r = JNull
    /\ ret = Pending
    /\ ppc = "done"
    /\ pidx = 1
    /\ prequests = << >>
    /\ pr = JNull
    /\ pret = << >>

LoadIdle ==
    /\ file_text = << >>
    /\ file_pos = 1
    /\ loaded = << >>
    /\ lpc = "closed"

\* n = 2 # subdivide list of ISBNs into batches of size 2
BatchSize == 2

LambdaIdle == serial_r = << >>

BatchIdle ==
    /\ batch_n = BatchSize
    /\ bi = 0
    /\ isbn_batches = << >>
    /\ bpc = "idle"

PwIdle ==
    /\ mode = "items"
    /\ pw_futures = << >>
    /\ gpc = "done"
    /\ pw_ret = Pending

PoolIdle ==
    /\ payloads = << >>
    /\ futures = << >>
    /\ work_queue = << >>
    /\ nthreads = 0
    /\ running = {}
    /\ mpc = "done"
    /\ results = << >>
    /\ overtaken = FALSE

\* A list of identifiers and the body the API has for each of its URLs; the
\* call of get_desc_wc is at the top of its loop with wc_list = [].
Init ==
    /\ isbn_list \in UNION {[1..k -> Isbns] : k \in 0..MaxList}
    /\ server \in [UrlsOf(isbn_list) -> Responses]
    /\ pc = "loop"
    /\ idx = 1
    /\ wc_list = << >>
    /\ requests = << >>
    /\ inflight = {}
    /\ r = JNull
    /\ ret = Pending
    /\ ppc = "idle"
    /\ pidx = 1
    /\ prequests = << >>
    /\ pr = JNull
    /\ pret = << >>
    /\ LoadIdle
    /\ PoolIdle
    /\ LambdaIdle
    /\ BatchIdle
    /\ PwIdle

Next ==
    \/ SerialRequest
    \/ SerialResponse
    \/ SerialBody
    \/ SerialReturn
    \/ ItemStart
    \/ ItemRequest
    \/ ItemResponse
    \/ ItemBody
    \/ ItemsDone

Spec == Init /\ [][Next]_vars

\* ---------------------------------------------- what the claims speak of

\* The number of whitespace-delimited tokens of s: the positions where a
\* token starts.
TokenCount(s) ==
    Cardinality({i \in 1..Len(s) :
                    s[i] \notin Whitespace /\ (i = 1 \/ s[i - 1] \in Whitespace)})

\* The body has a value at items[0].volumeInfo.description.
FieldPresent(data) ==
    /\ data.t = "obj"
    /\ "items" \in DOMAIN data.v
    /\ data.v.items.t = "arr"
    /\ Len(data.v.items.v) >= 1
    /\ data.v.items.v[1].t = "obj"
    /\ "volumeInfo" \in DOMAIN data.v.items.v[1].v
    /\ data.v.items.v[1].v.volumeInfo.t = "obj"
    /\ "description" \in DOMAIN data.v.items.v[1].v.volumeInfo.v

FieldValue(data) == data.v.items.v[1].v.volumeInfo.v.description

\* The body has a string at items[0].volumeInfo.description.
HasStringDescription(data) == FieldPresent(data) /\ FieldValue(data).t = "str"

\* The body the API has for the identifier at position k of the list.
ResponseAt(k) == server[url \o isbn_list[k]]

\* The try statement of get_desc_wc has run for position k.
SerialProcessed(k) == idx > k \/ (idx = k /\ pc = "raised")

\* The item call for position k has ended.
ItemProcessed(k) == Len(pret) >= k

Positions == 1..Len(isbn_list)

\* ----------------------------------------------------------------- claims

\* C1: for every response with a string at items[0].volumeInfo.description,
\* get_desc_wc appends for that identifier, and get_desc_wc_parallel returns,
\* exactly the number of whitespace-delimited tokens of that string.
C1_WordCountOfDescription ==
    \A k \in Positions :
        HasStringDescription(ResponseAt(k)) =>
            LET n == TokenCount(FieldValue(ResponseAt(k)).v)
            IN  /\ SerialProcessed(k) => Len(wc_list) >= k /\ wc_list[k] = n
                /\ ItemProcessed(k) => pret[k] = Ok(n)

\* C1 witness: both functions have counted a description of two tokens.
C1_Witness ==
    \E k \in Positions :
        /\ HasStringDescription(ResponseAt(k))
        /\ TokenCount(FieldValue(ResponseAt(k)).v) = 2
        /\ pc = "done"
        /\ ItemProcessed(k)

\* C2 (as claimed): for every response missing items[0].volumeInfo.description,
\* get_desc_wc records 0 for that identifier and get_desc_wc_parallel returns
\* 0, and neither raises.
C2_MissingFieldGivesZero ==
    \A k \in Positions :
        ~FieldPresent(ResponseAt(k)) =>
            /\ SerialProcessed(k) =>
                   pc # "raised" /\ Len(wc_list) >= k /\ wc_list[k] = 0
            /\ ItemProcessed(k) => pret[k] = Ok(0)

\* The count the claims derive from a body: the tokens of its description,
\* 0 when there is none.
DerivedCount(data) ==
    IF HasStringDescription(data) THEN TokenCount(FieldValue(data).v) ELSE 0

C4_MissingFieldContinues ==
    \A i \in Positions :
        (~FieldPresent(ResponseAt(i)) /\ SerialProcessed(i)
         /\ pc \in {"done", "raised"}) =>
            \A j \in Positions :
                j > i => /\ j <= Len(requests)
                         /\ ret.exc = "none"
                         /\ j <= Len(ret.val)

C6_SerialEqualsItemwise ==
    ppc \in {"done", "raised"} =>
        /\ pc = "done" =>
               /\ ppc = "done"
               /\ Len(pret) = Len(ret.val)
               /\ \A k \in 1..Len(pret) : pret[k] = Ok(ret.val[k])
        /\ pc = "raised" =>
               /\ ppc = "raised"
               /\ Len(pret) = idx
               /\ pret[idx].exc = ret.exc
               /\ \A k \in 1..(idx - 1) : pret[k] = Ok(wc_list[k])

\* C6 witness: both ended with the same list, which holds a 0 for a missing
\* field and a non-zero count.
C6_Witness ==
    /\ pc = "done"
    /\ ppc = "done"
    /\ \E k \in Positions : ~FieldPresent(ResponseAt(k)) /\ pret[k] = Ok(0)
    /\ \E k \in Positions : pret[k].val > 0

\* C9: get_desc_wc is sequential: at most one GET is outstanding, it is the
\* one of the position the loop is at, and it went out only after every
\* earlier position got its response and its entry in wc_list.
C9_Sequential ==
    /\ Cardinality(inflight) <= 1
    /\ inflight # {} =>
           /\ inflight = {Len(requests)}
           /\ Len(wc_list) = Len(requests) - 1
    /\ pc = "await" => inflight = {idx}

\* C9 witness: the GET of the third identifier is outstanding, the first two
\* entries are in wc_list.
C9_Witness ==
    /\ pc = "await"
    /\ inflight = {3}
    /\ Len(wc_list) = 2

\* ------------------------------------------------------ loading isbn.txt

\* Longest isbn.txt.
MaxFileLen == 4

\* The characters of isbn.txt: a digit, a space and the line end.
FileChars == {"1", " ", "\n"}

\* Iterating a text file yields its lines: the line that starts at position
\* i runs through the next "\n", or to the end of the file when there is
\* none. The position of its last character.
RECURSIVE LineEnd(_, _)
LineEnd(text, i) ==
    IF i >= Len(text) THEN Len(text)
    ELSE IF text[i] = "\n" THEN i
    ELSE LineEnd(text, i + 1)

\* s.lstrip()
LStrip(s) == SubSeq(s, Scan(s, 1, FALSE), Len(s))

\* s.rstrip()
RECURSIVE RStrip(_)
RStrip(s) ==
    IF s = << >> THEN s
    ELSE IF s[Len(s)] \in Whitespace THEN RStrip(SubSeq(s, 1, Len(s) - 1))
    ELSE s

\* A plausible slip: isbn.rstrip("\n"), which leaves the other whitespace.
RECURSIVE StripNewline(_)
StripNewline(s) ==
    IF s = << >> THEN s
    ELSE IF s[Len(s)] = "\n" THEN StripNewline(SubSeq(s, 1, Len(s) - 1))
    ELSE s

\* isbn.strip()
Strip(s) == RStrip(LStrip(s))

\* with open('isbn.txt') as file
OpenFile ==
    /\ lpc = "closed"
    /\ file_pos = 1
    /\ loaded = << >>
    /\ lpc' = "reading"
    /\ UNCHANGED <<file_text, file_pos, loaded>>
    /\ UNCHANGED <<wcVars, poolVars, lambdaVars, batchVars, pwVars>>

\* One turn of [isbn.strip() for isbn in file]: the next line is read and
\* its strip() joins the list.
ReadLine ==
    /\ lpc = "reading"
    /\ file_pos <= Len(file_text)
    /\ LET e == LineEnd(file_text, file_pos)
       IN  /\ loaded' = Append(loaded, Strip(SubSeq(file_text, file_pos, e)))
           /\ file_pos' = e + 1
    /\ UNCHANGED <<file_text, lpc>>
    /\ UNCHANGED <<wcVars, poolVars, lambdaVars, batchVars, pwVars>>

\* The file is exhausted: isbn_list is bound and the with block closes it.
CloseFile ==
    /\ lpc = "reading"
    /\ file_pos > Len(file_text)
    /\ lpc' = "loaded"
    /\ UNCHANGED <<file_text, file_pos, loaded>>
    /\ UNCHANGED <<wcVars, poolVars, lambdaVars, batchVars, pwVars>>

InitLoad ==
    /\ file_text \in StringsUpTo(FileChars, MaxFileLen)
    /\ file_pos = 1
    /\ loaded = << >>
    /\ lpc = "closed"
    /\ WcIdle
    /\ PoolIdle
    /\ LambdaIdle
    /\ BatchIdle
    /\ PwIdle

NextLoad ==
    \/ OpenFile
    \/ ReadLine
    \/ CloseFile

SpecLoad == InitLoad /\ [][NextLoad]_vars

\* The positions of the line ends of the file.
LineEnds == {i \in 1..Len(file_text) : file_text[i] = "\n"}

\* The number of lines of the file: one per line end, and one more for text
\* after the last line end.
LineCount ==
    Cardinality(LineEnds)
    + (IF file_text # << >> /\ file_text[Len(file_text)] # "\n" THEN 1 ELSE 0)

\* The k-th line of the file, its line end included: from after the
\* (k-1)-th line end through the k-th, or through the end of the file.
KthLineEnd(k) ==
    IF k <= Cardinality(LineEnds)
    THEN CHOOSE i \in LineEnds : Cardinality({j \in LineEnds : j <= i}) = k
    ELSE Len(file_text)

FileLine(k) ==
    SubSeq(file_text, (IF k = 1 THEN 1 ELSE KthLineEnd(k - 1) + 1), KthLineEnd(k))

\* e is line without its leading and trailing whitespace.
IsStripped(e, line) ==
    \E a \in 0..Len(line) : \E b \in a..Len(line) :
        /\ e = SubSeq(line, a + 1, b)
        /\ \A q \in 1..a : line[q] \in Whitespace
        /\ \A q \in (b + 1)..Len(line) : line[q] \in Whitespace
        /\ e # << >> => e[1] \notin Whitespace /\ e[Len(e)] \notin Whitespace

\* C8: loading the file yields one entry per line, in file order, each the
\* line with its leading and trailing whitespace (the line end included)
\* removed; the list is as long as the file has lines.
C8_OneEntryPerLine ==
    /\ Len(loaded) <= LineCount
    /\ \A k \in 1..Len(loaded) : IsStripped(loaded[k], FileLine(k))
    /\ lpc = "loaded" => Len(loaded) = LineCount

\* C8 witness: a file of two lines, the first with whitespace around its
\* digit, the last without a line end, has been loaded.
C8_Witness ==
    /\ lpc = "loaded"
    /\ file_text = <<" ", "1", "\n", "1">>
    /\ loaded = <<(<<"1">>), (<<"1">>)>>

\* ------------------------------------------ the thread pool and HelloWorld

\* Most payloads handed to executor.map.
MaxPayloads == 5

\* ThreadPoolExecutor(max_workers=4)
max_workers == 4

\* test_data = {'key1': 1, 'key2': 2}
test_data == [key1 |-> 1, key2 |-> 2]

\* The payloads the model hands to invoke_function: test_data and one whose
\* total has two digits.
Payloads == {test_data, [key1 |-> 9, key2 |-> 2]}

\* The characters of the keys of a payload.
KeyChars == [key1 |-> <<"k", "e", "y", "1">>, key2 |-> <<"k", "e", "y", "2">>]

DigitChars == <<"0", "1", "2", "3", "4", "5", "6", "7", "8", "9">>

\* The decimal digits of n >= 0.
RECURSIVE Digits(_)
Digits(n) ==
    IF n < 10 THEN <<DigitChars[n + 1]>>
    ELSE Digits(n \div 10) \o <<DigitChars[(n % 10) + 1]>>

\* json.dumps of an int.
JsonDumpsInt(n) == IF n < 0 THEN <<"-">> \o Digits(-n) ELSE Digits(n)

\* json.dumps of one member of a dict: "key": value
JsonDumpsMember(data, k) ==
    <<"\"">> \o KeyChars[k] \o <<"\"", ":", " ">> \o JsonDumpsInt(data[k])

\* json.dumps(data) for a payload: {"key1": 1, "key2": 2}
JsonDumps(data) ==
    <<"{">> \o JsonDumpsMember(data, "key1") \o <<",", " ">>
        \o JsonDumpsMember(data, "key2") \o <<"}">>

DigitValue(c) == CHOOSE d \in 0..9 : DigitChars[d + 1] = c

IsDigit(c) == \E d \in 1..10 : DigitChars[d] = c

\* The position after the digits that start at i.
RECURSIVE DigitsEnd(_, _)
DigitsEnd(s, i) ==
    IF i <= Len(s) /\ IsDigit(s[i]) THEN DigitsEnd(s, i + 1) ELSE i

\* The value of the digits s[i..j].
RECURSIVE DigitsValue(_, _, _)
DigitsValue(s, i, j) ==
    IF j < i THEN 0
    ELSE 10 * DigitsValue(s, i, j - 1) + DigitValue(s[j])

\* The JSON int that starts at position i of s: its value and the position
\* after it.
ParseInt(s, i) ==
    LET neg == i <= Len(s) /\ s[i] = "-"
        b == IF neg THEN i + 1 ELSE i
        e == DigitsEnd(s, b)
        n == DigitsValue(s, b, e - 1)
    IN  [val |-> IF neg THEN -n ELSE n, next |-> e]

\* json.loads of the text of an int.
JsonLoadsInt(s) == ParseInt(s, 1).val

\* The position of the first c at or after i.
RECURSIVE Find(_, _, _)
Find(s, c, i) ==
    IF i > Len(s) \/ s[i] = c THEN i ELSE Find(s, c, i + 1)

\* The members of a JSON object of ints from position i, which is at a key's
\* opening quote or at the closing brace: a function from keys to values.
RECURSIVE ParseMembers(_, _)
ParseMembers(s, i) ==
    IF i > Len(s) \/ s[i] # "\"" THEN << >>
    ELSE LET q == Find(s, "\"", i + 1)
             key == SubSeq(s, i + 1, q - 1)
             v == ParseInt(s, Scan(s, q + 2, FALSE))
             rest == IF v.next <= Len(s) /\ s[v.next] = ","
                     THEN ParseMembers(s, Scan(s, v.next + 1, FALSE))
                     ELSE << >>
         IN  (key :> v.val) @@ rest

\* json.loads of the text of an object of ints.
JsonLoads(s) == ParseMembers(s, Scan(s, 2, FALSE))

\* def lambda_handler(event, context): total = event['key1'] + event['key2']
lambda_handler(event) == event[KeyChars.key1] + event[KeyChars.key2]

\* aws_lambda.invoke(FunctionName='HelloWorld', InvocationType=
\* 'RequestResponse', Payload=payload): Lambda parses the payload into the
\* event, runs the handler and answers with the JSON text of what it returns.
LambdaInvoke(payload) == JsonDumpsInt(lambda_handler(JsonLoads(payload)))

\* A plausible slip: the response read but not parsed, its first character
\* taken for the number.
InvokeFunctionFirstDigit(data) == DigitValue(LambdaInvoke(JsonDumps(data))[1])

\* def invoke_function(data)
InvokeFunction(data) == JsonLoadsInt(LambdaInvoke(JsonDumps(data)))

\* A future of the executor: PENDING in the queue, RUNNING on a worker,
\* FINISHED with its result.
NewFuture == [state |-> "PENDING", result |-> 0]

\* A plausible slip: a thread started for every submit, whatever max_workers.
ThreadsAfterSubmitUnbounded(n) == n + 1

\* A plausible slip: max_workers taken as 1, a single worker thread.
ThreadsAfterSubmitSingle(n) == IF n < 1 THEN n + 1 ELSE n

\* submit adjusts the thread count: a worker thread is started while fewer
\* than max_workers are.
ThreadsAfterSubmit(n) == IF n < max_workers THEN n + 1 ELSE n

\* A plausible slip: the futures popped from the end of the list as
\* submitted, which yields the results last first.
ResultIndexReversed(collected, total) == total - collected

\* The iterator executor.map returns yields the results of the futures in
\* the order they were submitted: the index of the future whose result
\* comes after `collected` results.
ResultIndex(collected, total) == collected + 1

\* executor.map submits one call of invoke_function per payload, in order:
\* the future is created, the work item queued, the thread count adjusted.
Submit ==
    /\ mpc = "map"
    /\ Len(futures) < Len(payloads)
    /\ futures' = Append(futures, NewFuture)
    /\ work_queue' = Append(work_queue, Len(futures) + 1)
    /\ nthreads' = ThreadsAfterSubmit(nthreads)
    /\ UNCHANGED <<payloads, running, mpc, results, overtaken>>
    /\ UNCHANGED <<wcVars, loadVars, lambdaVars, batchVars, pwVars>>

\* executor.map has submitted every payload and returns its iterator; the
\* with block ends and calls shutdown(wait=True).
MapReturns ==
    /\ mpc = "map"
    /\ Len(futures) = Len(payloads)
    /\ mpc' = "shutdown"
    /\ UNCHANGED <<payloads, futures, work_queue, nthreads, running, results,
                   overtaken>>
    /\ UNCHANGED <<wcVars, loadVars, lambdaVars, batchVars, pwVars>>

\* An idle worker thread takes the oldest work item and calls
\* invoke_function on its payload: the invocation is in flight.
WorkerTake ==
    /\ work_queue # << >>
    /\ Cardinality(running) < nthreads
    /\ LET i == Head(work_queue)
       IN  /\ futures' = [futures EXCEPT ![i].state = "RUNNING"]
           /\ running' = running \cup {i}
    /\ work_queue' = Tail(work_queue)
    /\ UNCHANGED <<payloads, nthreads, mpc, results, overtaken>>
    /\ UNCHANGED <<wcVars, loadVars, lambdaVars, batchVars, pwVars>>

\* invoke_function returns on some worker: its future is FINISHED with the
\* result and the worker is idle again.
WorkerFinish ==
    /\ \E i \in running :
        /\ futures' = [futures EXCEPT
                          ![i] = [state |-> "FINISHED",
                                  result |-> InvokeFunction(payloads[i])]]
        /\ running' = running \ {i}
        /\ overtaken' = (overtaken \/ \E j \in running : j < i)
    /\ UNCHANGED <<payloads, work_queue, nthreads, mpc, results>>
    /\ UNCHANGED <<wcVars, loadVars, lambdaVars, batchVars, pwVars>>

\* shutdown(wait=True) returns once the queue is empty and every worker has
\* finished and exited.
Shutdown ==
    /\ mpc = "shutdown"
    /\ work_queue = << >>
    /\ running = {}
    /\ nthreads' = 0
    /\ mpc' = "collect"
    /\ UNCHANGED <<payloads, futures, work_queue, running, results, overtaken>>
    /\ UNCHANGED <<wcVars, loadVars, lambdaVars, batchVars, pwVars>>

\* One turn of [result for result in results]: the next future's result().
Collect ==
    /\ mpc = "collect"
    /\ Len(results) < Len(futures)
    /\ LET i == ResultIndex(Len(results), Len(futures))
       IN  /\ futures[i].state = "FINISHED"
           /\ results' = Append(results, futures[i].result)
    /\ UNCHANGED <<payloads, futures, work_queue, nthreads, running, mpc,
                   overtaken>>
    /\ UNCHANGED <<wcVars, loadVars, lambdaVars, batchVars, pwVars>>

\* The iterator is exhausted: the cell's value is the list.
CollectDone ==
    /\ mpc = "collect"
    /\ Len(results) = Len(futures)
    /\ mpc' = "done"
    /\ UNCHANGED <<payloads, futures, work_queue, nthreads, running, results,
                   overtaken>>
    /\ UNCHANGED <<wcVars, loadVars, lambdaVars, batchVars, pwVars>>

\* The synchronous cell: r = aws_lambda.invoke(..., Payload=json.dumps(
\* test_data)); json.loads(r['Payload'].read()). The kernel runs one cell at a
\* time: this one before the executor cell starts or after it has ended.
SerialInvoke ==
    /\ serial_r = << >>
    /\ (mpc = "map" /\ futures = << >>) \/ mpc = "done"
    /\ serial_r' = <<JsonLoadsInt(LambdaInvoke(JsonDumps(test_data)))>>
    /\ UNCHANGED <<wcVars, loadVars, poolVars, batchVars, pwVars>>

\* The executor is new and executor.map is about to submit the payloads.
InitPool ==
    /\ payloads \in UNION {[1..k -> Payloads] : k \in 0..MaxPayloads}
    /\ futures = << >>
    /\ work_queue = << >>
    /\ nthreads = 0
    /\ running = {}
    /\ mpc = "map"
    /\ results = << >>
    /\ overtaken = FALSE
    /\ WcIdle
    /\ LoadIdle
    /\ LambdaIdle
    /\ BatchIdle
    /\ PwIdle

NextPool ==
    \/ SerialInvoke
    \/ Submit
    \/ MapReturns
    \/ WorkerTake
    \/ WorkerFinish
    \/ Shutdown
    \/ Collect
    \/ CollectDone

SpecPool == InitPool /\ [][NextPool]_vars

\* C7: at no point are more than max_workers invocations of invoke_function
\* in flight, however many payloads were submitted.
C7_PoolBounded == Cardinality(running) <= max_workers

\* C7 witness: more payloads than workers were submitted, all workers are
\* busy and a work item waits in the queue.
C7_Witness ==
    /\ Len(payloads) > max_workers
    /\ Len(futures) = Len(payloads)
    /\ Cardinality(running) = max_workers
    /\ work_queue # << >>

\* What the HelloWorld handler computes for a payload.
HandlerValue(data) == data.key1 + data.key2

\* C10: the collected list holds one result per submitted payload, in
\* submission order, whatever order the invocations finished in; four copies
\* of test_data give [3, 3, 3, 3].
C10_ResultsInSubmissionOrder ==
    /\ Len(results) <= Len(payloads)
    /\ \A i \in 1..Len(results) : results[i] = HandlerValue(payloads[i])
    /\ mpc = "done" =>
           /\ Len(results) = Len(payloads)
           /\ payloads = <<test_data, test_data, test_data, test_data>> =>
                  results = <<3, 3, 3, 3>>

\* C10 witness: the results of payloads with different totals were collected
\* in submission order although a later invocation finished before an
\* earlier one.
C10_Witness ==
    /\ mpc = "done"
    /\ overtaken
    /\ Len(results) = 4
    /\ results = <<3, 11, 3, 11>>

\* C11: with no more payloads than workers, no invocation has to wait for
\* another to finish before it starts: while a work item waits in the queue a
\* worker thread is idle to take it, so all invocations can be in flight at
\* the same time (the witness: four of four are).
C11_NoneWaitsForAnother ==
    (Len(payloads) <= max_workers /\ work_queue # << >>) =>
        /\ Cardinality(running) < nthreads
        /\ ENABLED WorkerTake

\* C11 witness: 4 workers, 4 submitted payloads, and all four invocations of
\* invoke_function are in flight.
C11_Witness ==
    /\ Len(payloads) = 4
    /\ Len(futures) = 4
    /\ running = 1..4
    /\ \A i \in 1..4 : futures[i].state = "RUNNING"

\* ------------------------------------------------- batches of identifiers

MaxBatchList == 5

MaxBatchSize == 3

\* L[lo:hi] of a Python list, lo and hi counted from 0 and hi clamped to the
\* length of the list.
\* A plausible slip: the end index taken as inclusive.
ListSliceInclusive(L, lo, hi) ==
    SubSeq(L, lo + 1, IF hi + 1 < Len(L) THEN hi + 1 ELSE Len(L))

ListSlice(L, lo, hi) == SubSeq(L, lo + 1, IF hi < Len(L) THEN hi ELSE Len(L))

\* One round of [isbn_list[i:i + n] for i in range(0, len(isbn_list), n)].
BatchStep ==
    /\ bpc = "batching"
    /\ bi < Len(isbn_list)
    /\ isbn_batches' = Append(isbn_batches, ListSlice(isbn_list, bi, bi + batch_n))
    /\ bi' = bi + batch_n
    /\ UNCHANGED <<batch_n, bpc>>
    /\ UNCHANGED <<wcVars, loadVars, poolVars, lambdaVars, pwVars>>

\* range(0, len(isbn_list), n) is exhausted: isbn_batches is bound.
BatchDone ==
    /\ bpc = "batching"
    /\ bi >= Len(isbn_list)
    /\ bpc' = "done"
    /\ UNCHANGED <<batch_n, bi, isbn_batches>>
    /\ UNCHANGED <<wcVars, loadVars, poolVars, lambdaVars, pwVars>>

InitBatch ==
    /\ isbn_list \in UNION {[1..k -> Isbns] : k \in 0..MaxBatchList}
    /\ server = << >>
    /\ pc = "done"
    /\ idx = 1
    /\ wc_list = << >>
    /\ requests = << >>
    /\ inflight = {}
    /\ r = JNull
    /\ ret = Pending
    /\ ppc = "done"
    /\ pidx = 1
    /\ prequests = << >>
    /\ pr = JNull
    /\ pret = << >>
    /\ batch_n \in 1..MaxBatchSize
    /\ bi = 0
    /\ isbn_batches = << >>
    /\ bpc = "batching"
    /\ LoadIdle
    /\ PoolIdle
    /\ LambdaIdle
    /\ PwIdle

NextBatch ==
    \/ BatchStep
    \/ BatchDone

SpecBatch == InitBatch /\ [][NextBatch]_vars

\* ------------------------------------------------------- PyWren map cells

\* get_desc_wc_parallel(isbn) as one Lambda invocation runs it.
GetDescWcParallel(isbn) == ParallelTry(ServerResponse(RequestUrl(isbn)))

\* get_desc_wc(L) as one Lambda invocation runs it: the loop from position k
\* on, wcl being wc_list so far; an exception leaves the call with no list.
RECURSIVE GetDescWcFrom(_, _, _)
GetDescWcFrom(L, k, wcl) ==
    IF k > Len(L)
    THEN Ok(wcl)
    ELSE LET o == SerialTry(ServerResponse(RequestUrl(L[k])), wcl)
         IN  IF o.exc = "none"
             THEN GetDescWcFrom(L, k + 1, o.val)
             ELSE [exc |-> o.exc, val |-> << >>]

\* A plausible slip: the loop stops one identifier short of the end.
GetDescWcSkipsLast(L) == GetDescWcFrom(SubSeq(L, 1, Len(L) - 1), 1, << >>)

GetDescWc(L) == GetDescWcFrom(L, 1, << >>)

\* The iterable handed to pwex.map.
MapData == IF mode = "items" THEN isbn_list ELSE isbn_batches

\* The function handed to pwex.map, applied to one element.
MapFunction(x) == IF mode = "items" THEN GetDescWcParallel(x) ELSE GetDescWc(x)

\* futures = pwex.map(f, data): one invocation, and one future, per element.
PwMap ==
    /\ gpc = "map"
    /\ mode = "batches" => bpc = "done"
    /\ pw_futures' = [k \in 1..Len(MapData) |-> [state |-> "invoked", out |-> Pending]]
    /\ gpc' = "wait"
    /\ UNCHANGED <<mode, pw_ret>>
    /\ UNCHANGED <<wcVars, loadVars, poolVars, lambdaVars, batchVars>>

\* One invocation runs the function on its element and ends; the invocations
\* end in any order.
RunFunction ==
    \E k \in DOMAIN pw_futures :
        /\ pw_futures[k].state = "invoked"
        /\ LET out == MapFunction(MapData[k])
           IN  pw_futures' = [pw_futures EXCEPT ![k] =
                   [state |-> IF out.exc = "none" THEN "success" ELSE "error",
                    out |-> out]]
        /\ UNCHANGED <<mode, gpc, pw_ret>>
        /\ UNCHANGED <<wcVars, loadVars, poolVars, lambdaVars, batchVars>>

\* A plausible slip: the wait ends with the first future that is done.
AnyCompleted(fs) == \E k \in DOMAIN fs : fs[k].state # "invoked"

\* get_all_results waits until all of the futures have been executed.
AllCompleted(fs) == \A k \in DOMAIN fs : fs[k].state # "invoked"

\* wc_list = pywren.get_all_results(futures): the results in the order of the
\* futures, or the exception of the first future that ended with one.
GetAllResults ==
    /\ gpc = "wait"
    /\ AllCompleted(pw_futures)
    /\ LET bad == {k \in DOMAIN pw_futures : pw_futures[k].state = "error"}
       IN  IF bad = {}
           THEN /\ pw_ret' = Ok([k \in DOMAIN pw_futures |-> pw_futures[k].out.val])
                /\ gpc' = "done"
           ELSE /\ pw_ret' = [exc |-> pw_futures[CHOOSE k \in bad :
                                          \A j \in bad : k <= j].out.exc,
                              val |-> << >>]
                /\ gpc' = "raised"
    /\ UNCHANGED <<mode, pw_futures>>
    /\ UNCHANGED <<wcVars, loadVars, poolVars, lambdaVars, batchVars>>

InitPywren ==
    /\ isbn_list \in UNION {[1..k -> Isbns] : k \in 0..MaxList}
    /\ server \in [UrlsOf(isbn_list) -> Responses]
    /\ pc = "done"
    /\ idx = 1
    /\ wc_list = << >>
    /\ requests = << >>
    /\ inflight = {}
    /\ r = JNull
    /\ ret = Pending
    /\ ppc = "done"
    /\ pidx = 1
    /\ prequests = << >>
    /\ pr = JNull
    /\ pret = << >>
    /\ mode \in {"items", "batches"}
    /\ batch_n = BatchSize
    /\ bi = 0
    /\ isbn_batches = << >>
    /\ bpc = IF mode = "batches" THEN "batching" ELSE "idle"
    /\ pw_futures = << >>
    /\ gpc = "map"
    /\ pw_ret = Pending
    /\ LoadIdle
    /\ PoolIdle
    /\ LambdaIdle

NextPywren ==
    \/ BatchStep
    \/ BatchDone
    \/ PwMap
    \/ RunFunction
    \/ GetAllResults

SpecPywren == InitPywren /\ [][NextPywren]_vars

\* Every future pwex.map returned is done, with a result or with an exception.
FuturesDone == \A k \in DOMAIN pw_futures : pw_futures[k].state \in {"success", "error"}

RECURSIVE Flatten(_)
Flatten(LL) == IF LL = << >> THEN << >> ELSE Head(LL) \o Flatten(Tail(LL))

\* The least integer that is at least a / b.
CeilDiv(a, b) == (a + b - 1) \div b

\* C13: the batches are a partition of the list: for every list and every
\* n >= 1, the batches concatenated in order are the list, there are
\* ceil(len / n) of them, none is empty, all but possibly the last hold
\* exactly n identifiers and the last holds 1 to n; with n = 2 and a list of
\* even length every batch holds 2 (6000 identifiers give 3000 batches of 2).
C13_BatchesPartition ==
    bpc = "done" =>
        /\ Flatten(isbn_batches) = isbn_list
        /\ Len(isbn_batches) = CeilDiv(Len(isbn_list), batch_n)
        /\ \A j \in DOMAIN isbn_batches :
               /\ Len(isbn_batches[j]) >= 1
               /\ Len(isbn_batches[j]) <= batch_n
               /\ j < Len(isbn_batches) => Len(isbn_batches[j]) = batch_n
        /\ (batch_n = 2 /\ Len(isbn_list) % 2 = 0) =>
               /\ 2 * Len(isbn_batches) = Len(isbn_list)
               /\ \A j \in DOMAIN isbn_batches : Len(isbn_batches[j]) = 2

\* C13 witness: five identifiers, not all the same, were cut into batches of
\* two, the last batch holding the one that is left.
C13_Witness ==
    /\ bpc = "done"
    /\ batch_n = 2
    /\ Len(isbn_list) = 5
    /\ isbn_list[1] # isbn_list[2]
    /\ Len(isbn_batches) = 3
    /\ isbn_batches[3] = <<isbn_list[5]>>

\* C13 second case: a list of even length cut into batches of two.
C13_WitnessEven ==
    /\ bpc = "done"
    /\ batch_n = 2
    /\ Len(isbn_list) = 4
    /\ Len(isbn_batches) = 2

\* What mapping get_desc_wc_parallel over isbn_list gives for position k.
ItemOutcome(k) == GetDescWcParallel(isbn_list[k])

\* The positions whose item call raises.
ItemRaises == {k \in Positions : ItemOutcome(k).exc # "none"}

\* C14: mapping get_desc_wc over isbn_batches gives a list of lists whose j-th
\* inner list is as long as the j-th batch, and whose flattening is what
\* mapping get_desc_wc_parallel over isbn_list gives, the API answering the
\* same for each identifier; when an item call raises, the batched map raises
\* the same exception instead of returning.
C14_BatchedEqualsItemwise ==
    (mode = "batches" /\ gpc \in {"done", "raised"}) =>
        /\ gpc = "done" =>
               /\ ItemRaises = {}
               /\ Len(pw_ret.val) = Len(isbn_batches)
               /\ \A j \in DOMAIN isbn_batches :
                      Len(pw_ret.val[j]) = Len(isbn_batches[j])
               /\ Flatten(pw_ret.val) = [k \in Positions |-> ItemOutcome(k).val]
        /\ gpc = "raised" =>
               /\ ItemRaises # {}
               /\ \E k \in ItemRaises :
                      /\ \A j \in ItemRaises : k <= j
                      /\ pw_ret.exc = ItemOutcome(k).exc

\* C14 witness: three identifiers in batches of two and one; the batched map
\* returned a list of two and a list of one, with a 0 for a missing field.
C14_Witness ==
    /\ mode = "batches"
    /\ gpc = "done"
    /\ Len(isbn_list) = 3
    /\ pw_ret.val = << <<2, 0>>, <<2>> >>
    /\ ~FieldPresent(ResponseAt(2))

\* The futures whose call of invoke_function has returned.
Finished == {i \in DOMAIN futures : futures[i].state = "FINISHED"}

\* C15: invoke_function(data) returns data['key1'] + data['key2']: the result
\* depends on the payload alone, equal payloads give equal results, and
\* {'key1': 1, 'key2': 2} gives 3, in the synchronous cell as on the worker
\* threads, whatever else is in flight.
C15_ResultIsSumOfPayload ==
    /\ \A i \in Finished : futures[i].result = payloads[i].key1 + payloads[i].key2
    /\ \A i, j \in Finished :
           payloads[i] = payloads[j] => futures[i].result = futures[j].result
    /\ \A i \in Finished : payloads[i] = test_data => futures[i].result = 3
    /\ serial_r # << >> =>
           /\ serial_r = <<3>>
           /\ \A i \in Finished :
                  payloads[i] = test_data => futures[i].result = serial_r[1]

\* C15 witness: the synchronous cell gave 3; on the pool two invocations of
\* the same payload gave 3 and one of another payload gave 11, the third
\* having returned while the second was still in flight.
C15_Witness ==
    /\ serial_r = <<3>>
    /\ Len(futures) = 4
    /\ payloads[1] = test_data
    /\ payloads[3] = test_data
    /\ payloads[4] # test_data
    /\ futures[1] = [state |-> "FINISHED", result |-> 3]
    /\ futures[2].state = "RUNNING"
    /\ futures[3] = [state |-> "FINISHED", result |-> 3]
    /\ futures[4] = [state |-> "FINISHED", result |-> 11]

\* The body is an object whose 'items' is an empty list.
EmptyItemsList(data) ==
    /\ data.t = "obj"
    /\ "items" \in DOMAIN data.v
    /\ data.v.items.t = "arr"
    /\ data.v.items.v = << >>

\* On the way to items[0].volumeInfo.description a dictionary lacks the key
\* it is subscripted with.
KeyMissing(data) ==
    /\ data.t = "obj"
    /\ \/ "items" \notin DOMAIN data.v
       \/ /\ "items" \in DOMAIN data.v
          /\ \/ data.v.items.t = "obj"
             \/ /\ data.v.items.t = "arr"
                /\ Len(data.v.items.v) >= 1
                /\ data.v.items.v[1].t = "obj"
                /\ \/ "volumeInfo" \notin DOMAIN data.v.items.v[1].v
                   \/ /\ "volumeInfo" \in DOMAIN data.v.items.v[1].v
                      /\ data.v.items.v[1].v.volumeInfo.t = "obj"
                      /\ "description" \notin
                             DOMAIN data.v.items.v[1].v.volumeInfo.v

\* get_desc_wc raised at position k: it holds an exception that is not a
\* KeyError and no list.
SerialRaisedAt(k) ==
    /\ pc = "raised"
    /\ idx = k
    /\ ret.exc \notin {"none", "pending", "KeyError"}
    /\ ret.val = << >>

\* The call of get_desc_wc_parallel for position k raised an exception that
\* is not a KeyError.
ItemRaisedAt(k) ==
    /\ ppc = "raised"
    /\ Len(pret) = k
    /\ pret[k].exc \notin {"none", "pending", "KeyError"}

====
